---- MODULE Spec2Model ----
(***************************************************************************)
(* Model of the customs calculator of bot.py (class CustomsCalculator) and *)
(* of the caller that invokes it.                                          *)
(*                                                                         *)
(* Python floats are IEEE-754 binary64 values.  Every float of the program *)
(* is kept exactly, as the natural number N with value N * 2^-70, written  *)
(* as a little-endian sequence of 14-bit limbs (<<>> is zero).  A float    *)
(* operation is the exact operation followed by rounding to 53 significant *)
(* bits, ties to even, as the hardware does it.  The values of the model   *)
(* stay between 2^-17 and 2^31, where this is exact.                       *)
(***************************************************************************)
EXTENDS Integers, Sequences, FiniteSets, TLC

(* ---------------------------------------------------------------------- *)
(* Natural numbers of arbitrary size (limbs of 14 bits, lowest first)      *)
(* ---------------------------------------------------------------------- *)
Base == 2^14

DoublePrec == 53

FracBits == 70

RECURSIVE Norm(_)
Norm(a) ==
  IF a = <<>> THEN <<>>
  ELSE IF a[Len(a)] = 0 THEN Norm(SubSeq(a, 1, Len(a) - 1))
  ELSE a

RECURSIVE Limbs(_)
Limbs(n) == IF n = 0 THEN <<>> ELSE <<n % Base>> \o Limbs(n \div Base)

RECURSIVE ToInt(_)
ToInt(a) == IF a = <<>> THEN 0 ELSE Head(a) + Base * ToInt(Tail(a))

RECURSIVE AddC(_, _, _)
AddC(a, b, c) ==
  IF a = <<>> /\ b = <<>> THEN (IF c = 0 THEN <<>> ELSE <<c>>)
  ELSE LET x == (IF a = <<>> THEN 0 ELSE Head(a))
                + (IF b = <<>> THEN 0 ELSE Head(b)) + c
       IN  <<x % Base>> \o AddC(IF a = <<>> THEN <<>> ELSE Tail(a),
                                IF b = <<>> THEN <<>> ELSE Tail(b),
                                x \div Base)

BAdd(a, b) == AddC(a, b, 0)

RECURSIVE MulLimbC(_, _, _)
MulLimbC(a, x, c) ==
  IF a = <<>> THEN (IF c = 0 THEN <<>> ELSE <<c>>)
  ELSE LET p == Head(a) * x + c
       IN  <<p % Base>> \o MulLimbC(Tail(a), x, p \div Base)

MulLimb(a, x) == IF x = 0 THEN <<>> ELSE MulLimbC(a, x, 0)

ShiftLimbs(a, k) == IF a = <<>> THEN <<>> ELSE [i \in 1..k |-> 0] \o a

RECURSIVE BMul(_, _)
BMul(a, b) ==
  IF a = <<>> \/ b = <<>> THEN <<>>
  ELSE BAdd(MulLimb(a, Head(b)), ShiftLimbs(BMul(a, Tail(b)), 1))

RECURSIVE DivSmallAt(_, _, _, _)
DivSmallAt(a, d, i, rem) ==
  \* long division of a by the limb d, from limb i downwards: <<quotient, remainder>>
  IF i = 0 THEN <<(<<>>), rem>>
  ELSE LET x    == rem * Base + a[i]
           rest == DivSmallAt(a, d, i - 1, x % d)
       IN  <<rest[1] \o <<x \div d>>, rest[2]>>

DivSmall(a, d) ==
  LET r == DivSmallAt(a, d, Len(a), 0) IN <<Norm(r[1]), r[2]>>

RECURSIVE IntBits(_)
IntBits(n) == IF n = 0 THEN 0 ELSE 1 + IntBits(n \div 2)

BitLen(a) == IF a = <<>> THEN 0 ELSE 14 * (Len(a) - 1) + IntBits(a[Len(a)])

Shr(a, k) ==
  \* floor(a / 2^k)
  LET q == k \div 14
      r == k % 14
      n == Len(a)
  IN  IF q >= n THEN <<>>
      ELSE Norm([i \in 1..(n - q) |->
                   (a[i + q] \div 2^r)
                   + (IF i + q < n THEN (a[i + q + 1] % 2^r) * 2^(14 - r) ELSE 0)])

Low(a, k) ==
  \* a mod 2^k
  LET q == k \div 14
      r == k % 14
  IN  IF q >= Len(a) THEN a
      ELSE Norm([i \in 1..(q + 1) |-> IF i <= q THEN a[i] ELSE a[i] % 2^r])

Shl(a, k) == ShiftLimbs(MulLimb(a, 2^(k % 14)), k \div 14)

RECURSIVE CmpAt(_, _, _)
CmpAt(a, b, i) ==
  IF i = 0 THEN 0
  ELSE IF a[i] > b[i] THEN 1
  ELSE IF a[i] < b[i] THEN -1
  ELSE CmpAt(a, b, i - 1)

Cmp(a, b) ==
  \* -1, 0, 1 as a < b, a = b, a > b
  IF Len(a) > Len(b) THEN 1
  ELSE IF Len(a) < Len(b) THEN -1
  ELSE CmpAt(a, b, Len(a))

(* ---------------------------------------------------------------------- *)
(* binary64 arithmetic                                                     *)
(* ---------------------------------------------------------------------- *)
HalfEvenUp(q, r, k) ==
  \* does q + r/2^k round up to q + 1 (round half to even)?  k >= 1
  LET h == Cmp(r, Shl(<<1>>, k - 1))
  IN  h = 1 \/ (h = 0 /\ q # <<>> /\ q[1] % 2 = 1)

RoundSig(a) ==
  \* a rounded to DoublePrec significant bits, ties to even
  LET L == BitLen(a)
  IN  IF L <= DoublePrec THEN a
      ELSE LET k == L - DoublePrec
               q == Shr(a, k)
               r == Low(a, k)
           IN  Shl(IF HalfEvenUp(q, r, k) THEN BAdd(q, <<1>>) ELSE q, k)

FromInt(n) == ShiftLimbs(Limbs(n), FracBits \div 14)

\* float('nan'): no limb is negative, so this is no number
NaN == <<-1>>

FMul(x, y) ==
  IF x = NaN \/ y = NaN THEN NaN ELSE Shr(RoundSig(BMul(x, y)), FracBits)

FAdd(x, y) ==
  IF x = NaN \/ y = NaN THEN NaN ELSE RoundSig(BAdd(x, y))

\* every comparison with nan is False
FLe(x, y) == x # NaN /\ y # NaN /\ Cmp(x, y) <= 0

FLt(x, y) == x # NaN /\ y # NaN /\ Cmp(x, y) < 0

PyFloat(num, den) ==
  \* the double nearest to the decimal num/den (a float literal, float(text));
  \* den < 2^14.  The remainder of the division is kept as a sticky low bit.
  LET d == DivSmall(Shl(Limbs(num), 2 * FracBits), den)
      s == BAdd(Shl(d[1], 1), IF d[2] = 0 THEN <<>> ELSE <<1>>)
  IN  Shr(RoundSig(s), FracBits + 1)

PyRound(x) ==
  \* round(x) of a float that is a number: the nearest integer, ties to even
  LET q == Shr(x, FracBits)
      r == Low(x, FracBits)
  IN  ToInt(q) + (IF HalfEvenUp(q, r, FracBits) THEN 1 ELSE 0)

RECURSIVE MulPow10(_, _)
MulPow10(a, ndigits) ==
  \* a * 10^ndigits
  IF ndigits = 0 THEN a ELSE MulPow10(MulLimb(a, 10), ndigits - 1)

DivPow10(a, ndigits) ==
  \* <<floor(a / 10^ndigits), 0 if the division is exact>>, ndigits <= 8
  IF ndigits <= 4 THEN DivSmall(a, 10^ndigits)
  ELSE LET hi == DivSmall(a, 10^4)
           lo == DivSmall(hi[1], 10^(ndigits - 4))
       IN  <<lo[1], IF hi[2] = 0 THEN lo[2] ELSE 1>>

PyRoundN(x, ndigits) ==
  \* round(x, ndigits) of a float: x is rounded, ties to even, to a decimal of
  \* ndigits places, and the result is the double nearest to that decimal
  LET K == PyRound(MulPow10(x, ndigits))
      d == DivPow10(Shl(Limbs(K), 2 * FracBits), ndigits)
      s == BAdd(Shl(d[1], 1), IF d[2] = 0 THEN <<>> ELSE <<1>>)
  IN  Shr(RoundSig(s), FracBits + 1)

FDivInt(x, n) ==
  \* x / n for a float x and an int n, 0 < n < 2^14: the quotient rounded once
  LET d == DivSmall(Shl(x, FracBits), n)
      s == BAdd(Shl(d[1], 1), IF d[2] = 0 THEN <<>> ELSE <<1>>)
  IN  Shr(RoundSig(s), FracBits + 1)

(* ---------------------------------------------------------------------- *)
(* Dates (datetime.date) and date strings                                  *)
(* ---------------------------------------------------------------------- *)
Date(y, m, d) == [year |-> y, month |-> m, day |-> d]

IsLeap(y) == (y % 4 = 0 /\ y % 100 # 0) \/ y % 400 = 0

DaysInMonth(y, m) ==
  IF m = 2 THEN (IF IsLeap(y) THEN 29 ELSE 28)
  ELSE IF m \in {4, 6, 9, 11} THEN 30
  ELSE 31

ValidDate(y, m, d) ==
  /\ y \in 1..9999
  /\ m \in 1..12
  /\ d \in 1..DaysInMonth(y, m)

DateLe(a, b) ==
  \/ a.year < b.year
  \/ a.year = b.year /\ a.month < b.month
  \/ a.year = b.year /\ a.month = b.month /\ a.day <= b.day

NextDay(t) ==
  IF t.day < DaysInMonth(t.year, t.month) THEN Date(t.year, t.month, t.day + 1)
  ELSE IF t.month < 12 THEN Date(t.year, t.month + 1, 1)
  ELSE Date(t.year + 1, 1, 1)

\* A date string is kept as the layout it is written in and its three numbers:
\* "%Y-%m-%d" is text like 2022-05-15, "%d.%m.%Y" is text like 15.05.2022,
\* "other" is any text that has neither layout.
DateStr(f, y, m, d) == [fmt |-> f, year |-> y, month |-> m, day |-> d]

ValueError == [error |-> "ValueError"]

strptime(s, f) ==
  \* datetime.strptime(s, f).date(): the date, or ValueError when the text has
  \* another layout or names no day of the calendar
  IF s.fmt = f /\ ValidDate(s.year, s.month, s.day)
  THEN Date(s.year, s.month, s.day)
  ELSE ValueError

strftime(t) == DateStr("%d.%m.%Y", t.year, t.month, t.day)

(* ---------------------------------------------------------------------- *)
(* class CustomsCalculator                                                 *)
(* ---------------------------------------------------------------------- *)
VARIABLES
  exchange_rates,   \* self.exchange_rates: currency code -> rate (a float)
  today,            \* the value of date.today()
  call,             \* the arguments of the call in progress
  result,           \* what the call in progress returned or raised
  conversation,     \* the state the ConversationHandler keeps for the user
  user_data,        \* context.user_data: key -> stored entry
  job,              \* the run of the rate refresh job: its position and locals
  last              \* the previous call of calculate_customs and what it saw

vars == <<exchange_rates, today, call, result, conversation, user_data, job, last>>

\* what the calculator's own methods never touch
bot_vars == <<conversation, user_data, job, last>>

inf == -1

default_exchange_rates ==
  [c \in {"USD", "CNY", "EUR", "KRW"} |->
     CASE c = "USD" -> PyFloat(77, 1)
       [] c = "CNY" -> PyFloat(11, 1)
       [] c = "EUR" -> PyFloat(91, 1)
       [] c = "KRW" -> PyFloat(52, 1000)]

\* self.exchange_rates = exchange_rates or {...}: None and {} give the defaults
new_calculator(rates) ==
  IF DOMAIN rates = {} THEN default_exchange_rates ELSE rates

\* (min_vol, max_vol, rate in euros per cm3)
duty_rates_3_5_years ==
  << <<0, 1000, PyFloat(15, 10)>>, <<1000, 1500, PyFloat(17, 10)>>,
     <<1500, 1800, PyFloat(25, 10)>>, <<1800, 2300, PyFloat(27, 10)>>,
     <<2300, 3000, PyFloat(3, 1)>>, <<3000, inf, PyFloat(36, 10)>> >>

\* the literals 3.6, 0.48, 1000, 3.0, 2.0 and the int 1 of the arithmetic
fallback_duty_rate == PyFloat(36, 10)

invoice_share == PyFloat(48, 100)

cm3_per_litre == FromInt(1000)

discount_max_volume == FromInt(3)

category_split_volume == FromInt(2)

no_rate_zero == FromInt(0)

no_rate == FromInt(1)

\* category -> rows (min_hp, max_hp, fee up to 3 years, fee over 3 years)
recycling_fee_2026 ==
  [cat \in {"1.0-2.0", "2.0-3.0"} |->
     IF cat = "1.0-2.0"
     THEN << <<160, 190, 900000, 1492800>>, <<190, 220, 952000, 1584000>>,
             <<220, 250, 1010400, 1677600>>, <<250, 280, 1142400, 1838400>>,
             <<280, 310, 1291200, 2011200>>, <<310, 340, 1459200, 2203200>> >>
     ELSE << <<160, 190, 2306800, 3456000>>, <<190, 220, 2364000, 3501600>>,
             <<220, 250, 2402400, 3552000>>, <<250, 280, 2520000, 3660000>>,
             <<280, 310, 2620800, 3770400>>, <<310, 340, 2726400, 3873600>>,
             <<340, 370, 2834400, 3981600>>, <<370, 400, 2949600, 4094400>>,
             <<400, 500, 3448800, 4572000>>, <<500, inf, 3448800, 4572000>> >>]

update_exchange_rates_replace(rates, new_rates) == new_rates

\* the merge of dict.update
update_exchange_rates(rates, new_rates) ==
  [c \in DOMAIN rates \cup DOMAIN new_rates |->
     IF c \in DOMAIN new_rates THEN new_rates[c] ELSE rates[c]]

calculate_age_reversed(manufacture_date, now) ==
  LET months0      == (now.year - manufacture_date.year) * 12
                      + (now.month - manufacture_date.month)
      total_months == IF now.day > manufacture_date.day THEN months0 - 1 ELSE months0
  IN  [years |-> total_months \div 12, months |-> total_months % 12]

calculate_age(manufacture_date, now) ==
  LET months0      == (now.year - manufacture_date.year) * 12
                      + (now.month - manufacture_date.month)
      total_months == IF now.day < manufacture_date.day THEN months0 - 1 ELSE months0
  IN  [years |-> total_months \div 12, months |-> total_months % 12]

\* x <= bound for a float x and an int or float('inf') bound
LeBound(x, bound) == bound = inf \/ FLe(x, FromInt(bound))

in_bracket_swapped(engine_volume_cm3, min_vol, max_vol) ==
  /\ FLe(FromInt(min_vol), engine_volume_cm3)
  /\ (max_vol = inf \/ FLt(engine_volume_cm3, FromInt(max_vol)))

\* min_vol < engine_volume_cm3 <= max_vol
in_bracket(engine_volume_cm3, min_vol, max_vol) ==
  /\ FLt(FromInt(min_vol), engine_volume_cm3)
  /\ LeBound(engine_volume_cm3, max_vol)

RECURSIVE duty_scan(_, _)
duty_scan(engine_volume_cm3, i) ==
  IF i > Len(duty_rates_3_5_years) THEN FMul(engine_volume_cm3, fallback_duty_rate)
  ELSE LET b == duty_rates_3_5_years[i]
       IN  IF in_bracket(engine_volume_cm3, b[1], b[2])
           THEN FMul(engine_volume_cm3, b[3])
           ELSE duty_scan(engine_volume_cm3, i + 1)

get_duty_for_3_5_years(engine_volume_cm3) == duty_scan(engine_volume_cm3, 1)

\* the order of sorted() on the (min_hp, max_hp) keys
KeyLe(a, b) ==
  \/ a[1] < b[1]
  \/ a[1] = b[1] /\ (b[2] = inf \/ (a[2] # inf /\ a[2] <= b[2]))

RECURSIVE sorted(_)
sorted(rows) ==
  IF rows = <<>> THEN <<>>
  ELSE LET least == CHOOSE i \in 1..Len(rows) :
                      \A j \in 1..Len(rows) : KeyLe(rows[i], rows[j])
       IN  <<rows[least]>>
           \o sorted([k \in 1..(Len(rows) - 1) |->
                        IF k < least THEN rows[k] ELSE rows[k + 1]])

in_hp_range_swapped(hp, min_hp, max_hp) ==
  min_hp < hp /\ (max_hp = inf \/ hp <= max_hp)

\* min_hp <= hp < max_hp
in_hp_range(hp, min_hp, max_hp) ==
  min_hp <= hp /\ (max_hp = inf \/ hp < max_hp)

RECURSIVE hp_scan(_, _, _)
hp_scan(rows, hp, i) ==
  \* the first range that holds hp, or <<>> (None)
  IF i > Len(rows) THEN <<>>
  ELSE IF in_hp_range(hp, rows[i][1], rows[i][2]) THEN rows[i]
  ELSE hp_scan(rows, hp, i + 1)

default_fee(age_years) == IF age_years <= 3 THEN 20000 ELSE 30000

discount_below_160(engine_volume_float, hp) ==
  FLe(engine_volume_float, discount_max_volume) /\ hp < 160

\* engine_volume_float <= 3.0 and hp <= 160
discount(engine_volume_float, hp) ==
  FLe(engine_volume_float, discount_max_volume) /\ hp <= 160

get_recycling_fee(engine_volume_l, hp, age_years) ==
  LET volume_category ==
        IF FLe(engine_volume_l, category_split_volume) THEN "1.0-2.0" ELSE "2.0-3.0"
      fee_table ==
        IF volume_category \in DOMAIN recycling_fee_2026
        THEN recycling_fee_2026[volume_category] ELSE <<>>
      found == hp_scan(sorted(fee_table), hp, 1)
      sorted_ranges == sorted(fee_table)
      fee_values ==
        IF found # <<>> THEN found ELSE sorted_ranges[Len(sorted_ranges)]
  IN  IF discount(engine_volume_l, hp) /\ age_years < 3 THEN 3400
      ELSE IF discount(engine_volume_l, hp) /\ 3 <= age_years /\ age_years <= 5
      THEN 5200
      ELSE IF fee_table = <<>> THEN default_fee(age_years)
      ELSE IF found = <<>> /\ sorted_ranges = <<>> THEN default_fee(age_years)
      ELSE IF age_years <= 3 THEN fee_values[3]
      ELSE fee_values[4]

parse_manufacture_date_january(manufacture_date_str, now) ==
  LET iso == strptime(manufacture_date_str, "%Y-%m-%d")
      dmy == strptime(manufacture_date_str, "%d.%m.%Y")
  IN  IF iso # ValueError THEN iso
      ELSE IF dmy # ValueError THEN dmy
      ELSE Date(now.year, 1, 1)

\* the two strptime attempts and the fall back to today
parse_manufacture_date(manufacture_date_str, now) ==
  LET iso == strptime(manufacture_date_str, "%Y-%m-%d")
      dmy == strptime(manufacture_date_str, "%d.%m.%Y")
  IN  IF iso # ValueError THEN iso
      ELSE IF dmy # ValueError THEN dmy
      ELSE now

fixed_duty_band_under_5(age_years) == 3 < age_years /\ age_years < 5

\* elif 3 < age_years <= 5
fixed_duty_band(age_years) == 3 < age_years /\ age_years <= 5

calculate_customs(rates, now, purchase_price, currency, manufacture_date_str, engine_volume, hp, importer_type) ==
  LET rub_price ==
        FMul(purchase_price,
             IF currency \in DOMAIN rates THEN rates[currency] ELSE no_rate)
      manufacture_date_obj == parse_manufacture_date(manufacture_date_str, now)
      age == calculate_age(manufacture_date_obj, now)
      age_years == age.years
      engine_volume_cm3 == FMul(engine_volume, cm3_per_litre)
      recycling_fee == get_recycling_fee(engine_volume, hp, age_years)
      fixed == ~(age_years < 1) /\ ~(1 <= age_years /\ age_years <= 3)
               /\ fixed_duty_band(age_years)
      duty_euro == get_duty_for_3_5_years(engine_volume_cm3)
      customs_duty ==
        IF fixed THEN FMul(duty_euro, rates["EUR"])
        ELSE FMul(rub_price, invoice_share)
      duty_type ==
        IF age_years < 1 THEN <<"48% of invoice">>
        ELSE IF 1 <= age_years /\ age_years <= 3 THEN <<"48% of invoice">>
        ELSE IF fixed THEN <<"fixed duty, EUR", PyRound(duty_euro)>>
        ELSE <<"48% of invoice (over 5 years)">>
      total == FAdd(customs_duty, FromInt(recycling_fee))
  IN  IF fixed /\ "EUR" \notin DOMAIN rates
      THEN [status |-> "KeyError"]
      ELSE IF customs_duty = NaN \/ total = NaN \/ rub_price = NaN
      THEN [status |-> "ValueError"]   \* round(nan)
      ELSE [status |-> "ok",
            purchase_price |-> purchase_price,
            currency |-> currency,
            vehicle_age_years |-> age_years,
            vehicle_age_months |-> age.months,
            engine_volume |-> engine_volume,
            horsepower |-> hp,
            importer_type |-> importer_type,
            customs_duty |-> PyRound(customs_duty),
            recycling_fee |-> recycling_fee,
            total_payable |-> PyRound(total),
            duty_type |-> duty_type,
            rub_price |-> PyRound(rub_price),
            manufacture_date |-> strftime(manufacture_date_obj)]

(* ---------------------------------------------------------------------- *)
(* The inputs the model draws from, and its bounds                         *)
(* ---------------------------------------------------------------------- *)
MaxDays == 2

FirstDay == Date(2026, 2, 27)

\* the days a run may start on when only calculate_age is exercised
StartDays == {FirstDay, Date(2028, 2, 27), Date(2026, 12, 30), Date(2026, 4, 29)}

RECURSIVE AddDays(_, _)
AddDays(t, n) == IF n = 0 THEN t ELSE AddDays(NextDay(t), n - 1)

\* midnight may pass MaxDays times after the start
ClockRuns(t) == \E s \in StartDays, k \in 0..(MaxDays - 1) : t = AddDays(s, k)

Prices == {PyFloat(20000, 1), PyFloat(9375, 100)}

Currencies == {"USD", "EUR"}

Volumes ==
  {PyFloat(8, 10), PyFloat(1, 1), PyFloat(15, 10), PyFloat(18, 10),
   PyFloat(2, 1), PyFloat(23, 10), PyFloat(3, 1), PyFloat(35, 10)}

Horsepowers == {150, 160, 190, 250, 340}

ImporterTypes == {"individual", "legal entity"}

ManufactureDates ==
  {Date(2026, 3, 1), Date(2025, 3, 1), Date(2024, 2, 29), Date(2023, 2, 28),
   Date(2022, 1, 31), Date(2021, 2, 28), Date(2020, 3, 1)}

DateStrings ==
  {DateStr("%Y-%m-%d", t.year, t.month, t.day) : t \in ManufactureDates}
  \cup {DateStr("%d.%m.%Y", 2024, 2, 29),
        DateStr("%Y-%m-%d", 2023, 2, 30), DateStr("other", 2022, 5, 15)}

\* the dates calculate_age alone is called with
AgeDates ==
  {t \in [year : {2024, 2025, 2026, 2028}, month : {1, 2, 3, 12},
          day : {1, 28, 29, 30, 31}] :
     ValidDate(t.year, t.month, t.day)}

RateTables ==
  { [c \in {} |-> <<>>],
    [c \in {"USD"} |-> PyFloat(771, 10)] }

NewRates ==
  { [c \in {"USD", "EUR"} |->
       IF c = "USD" THEN PyFloat(771, 10) ELSE PyFloat(9225, 100)] }

(* ---------------------------------------------------------------------- *)
(* The state machine                                                       *)
(* ---------------------------------------------------------------------- *)
Idle == [status |-> "idle"]

NoCall == [op |-> "none"]

\* ConversationHandler.END: the user is in no conversation
END == "END"

NoJob == [pc |-> "idle"]

\* no conversation, nothing stored, no refresh run, no earlier call
NoBot ==
  /\ conversation = END
  /\ user_data = [k \in {} |-> 0]
  /\ job = NoJob
  /\ last = NoCall

Init ==
  /\ exchange_rates \in {new_calculator(t) : t \in RateTables}
  /\ today = FirstDay
  /\ call = NoCall
  /\ result = Idle
  /\ NoBot

Calculated_legal_entity_fee(purchase_price, currency, manufacture_date_str, engine_volume, hp, importer_type) ==
  /\ result = Idle
  /\ call' = [op |-> "calculate_customs",
              purchase_price |-> purchase_price,
              currency |-> currency,
              manufacture_date_str |-> manufacture_date_str,
              engine_volume |-> engine_volume,
              hp |-> hp,
              importer_type |-> importer_type]
  /\ result' = LET r == calculate_customs(exchange_rates, today, purchase_price,
                                          currency, manufacture_date_str,
                                          engine_volume, hp, importer_type)
               IN  IF r.status = "ok" /\ importer_type = "legal entity"
                   THEN [r EXCEPT !.recycling_fee = 2 * @,
                                  !.total_payable = @ + r.recycling_fee]
                   ELSE r

\* calculate_customs is called: it returns a record or raises
Calculated(purchase_price, currency, manufacture_date_str, engine_volume, hp, importer_type) ==
  /\ result = Idle
  /\ call' = [op |-> "calculate_customs",
              purchase_price |-> purchase_price,
              currency |-> currency,
              manufacture_date_str |-> manufacture_date_str,
              engine_volume |-> engine_volume,
              hp |-> hp,
              importer_type |-> importer_type]
  /\ result' = calculate_customs(exchange_rates, today, purchase_price, currency,
                                 manufacture_date_str, engine_volume, hp,
                                 importer_type)

\* a call of calculate_customs
Calculate(purchase_price, currency, manufacture_date_str, engine_volume, hp, importer_type) ==
  /\ Calculated(purchase_price, currency, manufacture_date_str, engine_volume, hp, importer_type)
  /\ UNCHANGED <<exchange_rates, today, bot_vars>>

\* a call of calculate_age alone
CalculateAge(manufacture_date) ==
  /\ result = Idle
  /\ call' = [op |-> "calculate_age", manufacture_date |-> manufacture_date]
  /\ result' = [status |-> "age", age |-> calculate_age(manufacture_date, today)]
  /\ UNCHANGED <<exchange_rates, today, bot_vars>>

\* the caller takes what the call returned or raised
Respond ==
  /\ result # Idle
  /\ call' = NoCall
  /\ result' = Idle
  /\ UNCHANGED <<exchange_rates, today, bot_vars>>

\* CustomsCalculator.update_exchange_rates(new_rates)
UpdateRates(new_rates) ==
  /\ result = Idle
  /\ exchange_rates' = update_exchange_rates(exchange_rates, new_rates)
  /\ call' = [op |-> "update_exchange_rates", new_rates |-> new_rates,
              rates_before |-> exchange_rates]
  /\ result' = [status |-> "None"]
  /\ UNCHANGED <<today, bot_vars>>

\* midnight: date.today() moves on
Tick ==
  /\ result = Idle
  /\ ClockRuns(today)
  /\ today' = NextDay(today)
  /\ UNCHANGED <<exchange_rates, call, result, bot_vars>>

Next ==
  \/ \E p \in Prices, c \in Currencies, s \in DateStrings, v \in Volumes,
        h \in Horsepowers, i \in ImporterTypes : Calculate(p, c, s, v, h, i)
  \/ \E d \in ManufactureDates : CalculateAge(d)
  \/ Respond
  \/ \E n \in NewRates : UpdateRates(n)
  \/ Tick

Spec == Init /\ [][Next]_vars

\* calculate_age alone, on more dates and more days
AgeInit ==
  /\ exchange_rates = default_exchange_rates
  /\ today \in StartDays
  /\ call = NoCall
  /\ result = Idle
  /\ NoBot

AgeNext ==
  \/ \E d \in AgeDates : CalculateAge(d)
  \/ Respond
  \/ Tick

AgeSpec == AgeInit /\ [][AgeNext]_vars

(* ---------------------------------------------------------------------- *)
(* The input dialogue (ConversationHandler of main) and its handlers        *)
(* ---------------------------------------------------------------------- *)
START_CHOICE == "START_CHOICE"

PURCHASE_PRICE == "PURCHASE_PRICE"

CURRENCY == "CURRENCY"

MANUFACTURE_DATE == "MANUFACTURE_DATE"

ENGINE_VOLUME == "ENGINE_VOLUME"

HORSEPOWER == "HORSEPOWER"

IMPORTER_TYPE == "IMPORTER_TYPE"

\* The text of a message: "number" is a decimal numeral, written with a point
\* or a comma, of value (-)num/den, den = 1 when it has no fraction part;
\* "nan" is the word nan; "words" is any text float() does not accept.
Entry(kind, neg, num, den) == [kind |-> kind, neg |-> neg, num |-> num, den |-> den]

\* float(text.replace(',', '.')) raises ValueError
float_raises(text) == text.kind = "words"

\* the magnitude of float(text.replace(',', '.')), or nan
float_of(text) == IF text.kind = "nan" THEN NaN ELSE PyFloat(text.num, text.den)

\* float(text) <= 0: False for nan
float_le_zero(text) == text.kind = "number" /\ (text.neg \/ text.num = 0)

\* float(text) > bound: False for nan
float_gt(text, bound) ==
  text.kind = "number" /\ ~text.neg /\ FLt(FromInt(bound), float_of(text))

\* int(text) raises ValueError: the text is not a whole numeral
int_raises(text) == text.kind # "number" \/ text.den # 1

int_of(text) == IF text.neg THEN 0 - text.num ELSE text.num

\* user_data[key] = value
Put(data, key, value) ==
  [k \in DOMAIN data \cup {key} |-> IF k = key THEN value ELSE data[k]]

\* what a handler leaves: the next state of the conversation and user_data
Stay(state, data) == [next |-> state, user_data |-> data]

handle_start_choice(text, data) ==
  IF text = "calculate" THEN Stay(PURCHASE_PRICE, data)
  ELSE Stay(START_CHOICE, data)

get_purchase_price(text, data) ==
  IF float_raises(text) THEN Stay(PURCHASE_PRICE, data)
  ELSE IF float_le_zero(text) THEN Stay(PURCHASE_PRICE, data)
  ELSE Stay(CURRENCY, Put(data, "purchase_price", float_of(text)))

\* query.data is "currency_" and a code, kept as the pair the split gives
get_currency(query_data, data) ==
  Stay(MANUFACTURE_DATE, Put(data, "currency", query_data[2]))

\* date_obj > today
DateGt(a, b) == ~DateLe(a, b)

get_manufacture_date(date_text, now, data) ==
  LET iso      == strptime(date_text, "%Y-%m-%d")
      dmy      == strptime(date_text, "%d.%m.%Y")
      date_obj == IF iso # ValueError THEN iso ELSE dmy
  IN  IF date_obj = ValueError THEN Stay(MANUFACTURE_DATE, data)
      ELSE IF DateGt(date_obj, now) THEN Stay(MANUFACTURE_DATE, data)
      ELSE IF date_obj.year < now.year - 50 THEN Stay(MANUFACTURE_DATE, data)
      ELSE Stay(ENGINE_VOLUME, Put(data, "manufacture_date", date_text))

get_engine_volume(text, data) ==
  IF float_raises(text) THEN Stay(ENGINE_VOLUME, data)
  ELSE IF float_le_zero(text) \/ float_gt(text, 10) THEN Stay(ENGINE_VOLUME, data)
  ELSE Stay(HORSEPOWER, Put(data, "engine_volume", float_of(text)))

get_horsepower(text, data) ==
  IF int_raises(text) THEN Stay(HORSEPOWER, data)
  ELSE IF int_of(text) <= 0 \/ int_of(text) > 2000 THEN Stay(HORSEPOWER, data)
  ELSE Stay(IMPORTER_TYPE, Put(data, "horsepower", int_of(text)))

\* the messages the model's user sends
StartChoiceTexts == {"calculate", "info", "rates", "hello"}

PriceTexts ==
  {Entry("number", FALSE, 20000, 1), Entry("number", FALSE, 9375, 100),
   Entry("number", TRUE, 5, 1), Entry("number", FALSE, 0, 1),
   Entry("nan", FALSE, 0, 1), Entry("words", FALSE, 0, 1)}

CurrencyButtons == {<<"currency", "USD">>, <<"currency", "CNY">>}

DateTexts ==
  {DateStr("%Y-%m-%d", 2026, 3, 1), DateStr("%Y-%m-%d", 1976, 1, 1),
   DateStr("%Y-%m-%d", 1975, 12, 31), DateStr("%d.%m.%Y", 2022, 1, 31),
   DateStr("%Y-%m-%d", 2023, 2, 30), DateStr("other", 2022, 5, 15)}

VolumeTexts ==
  {Entry("number", FALSE, 2, 1), Entry("number", FALSE, 10, 1),
   Entry("number", FALSE, 105, 10), Entry("number", FALSE, 0, 1),
   Entry("number", TRUE, 2, 1), Entry("nan", FALSE, 0, 1),
   Entry("words", FALSE, 0, 1)}

HorsepowerTexts ==
  {Entry("number", FALSE, 150, 1), Entry("number", FALSE, 2000, 1),
   Entry("number", FALSE, 2001, 1), Entry("number", FALSE, 0, 1),
   Entry("number", TRUE, 150, 1), Entry("number", FALSE, 1505, 10),
   Entry("nan", FALSE, 0, 1), Entry("words", FALSE, 0, 1)}

ImporterTexts == ImporterTypes \cup {"hello"}

\* a handler of the conversation ran and left r
Handled(r) ==
  /\ conversation' = r.next
  /\ user_data' = r.user_data
  /\ UNCHANGED <<exchange_rates, today, call, result, job, last>>

\* /start: the entry point, taken in every state (allow_reentry=True)
Start ==
  /\ result = Idle
  /\ Handled(Stay(START_CHOICE, user_data))

\* /cancel: the fallback of every state of a conversation
Cancel ==
  /\ result = Idle
  /\ conversation # END
  /\ Handled(Stay(START_CHOICE, user_data))

HandleStartChoice(text) ==
  /\ result = Idle
  /\ conversation = START_CHOICE
  /\ Handled(handle_start_choice(text, user_data))

GetPurchasePrice(text) ==
  /\ result = Idle
  /\ conversation = PURCHASE_PRICE
  /\ Handled(get_purchase_price(text, user_data))

GetCurrency(query_data) ==
  /\ result = Idle
  /\ conversation = CURRENCY
  /\ Handled(get_currency(query_data, user_data))

GetManufactureDate(date_text) ==
  /\ result = Idle
  /\ conversation = MANUFACTURE_DATE
  /\ Handled(get_manufacture_date(date_text, today, user_data))

GetEngineVolume(text) ==
  /\ result = Idle
  /\ conversation = ENGINE_VOLUME
  /\ Handled(get_engine_volume(text, user_data))

GetHorsepower(text) ==
  /\ result = Idle
  /\ conversation = HORSEPOWER
  /\ Handled(get_horsepower(text, user_data))

\* get_importer_type: a listed type is stored and the calculation is made with
\* what user_data holds; any other text asks again
GetImporterType(text) ==
  /\ result = Idle
  /\ conversation = IMPORTER_TYPE
  /\ IF text \in ImporterTypes
     THEN /\ user_data' = Put(user_data, "importer_type", text)
          /\ call' = [op |-> "calculate_customs",
                      purchase_price |-> user_data["purchase_price"],
                      currency |-> user_data["currency"],
                      manufacture_date_str |-> user_data["manufacture_date"],
                      engine_volume |-> user_data["engine_volume"],
                      hp |-> user_data["horsepower"],
                      importer_type |-> text]
          /\ result' = calculate_customs(exchange_rates, today,
                                         user_data["purchase_price"],
                                         user_data["currency"],
                                         user_data["manufacture_date"],
                                         user_data["engine_volume"],
                                         user_data["horsepower"], text)
          /\ conversation' = START_CHOICE
     ELSE UNCHANGED <<user_data, call, result, conversation>>
  /\ UNCHANGED <<exchange_rates, today, job, last>>

\* post_init: the calculator of the bot starts from the default table
DialogueInit ==
  /\ exchange_rates = new_calculator([c \in {} |-> <<>>])
  /\ today = FirstDay
  /\ call = NoCall
  /\ result = Idle
  /\ NoBot

DialogueNext ==
  \/ Start
  \/ Cancel
  \/ \E text \in StartChoiceTexts : HandleStartChoice(text)
  \/ \E text \in PriceTexts : GetPurchasePrice(text)
  \/ \E query_data \in CurrencyButtons : GetCurrency(query_data)
  \/ \E date_text \in DateTexts : GetManufactureDate(date_text)
  \/ \E text \in VolumeTexts : GetEngineVolume(text)
  \/ \E text \in HorsepowerTexts : GetHorsepower(text)
  \/ \E text \in ImporterTexts : GetImporterType(text)
  \/ Respond
  \/ Tick

DialogueSpec == DialogueInit /\ [][DialogueNext]_vars

(* ---------------------------------------------------------------------- *)
(* The rate refresh job (async update_exchange_rates) beside calculations   *)
(* ---------------------------------------------------------------------- *)
\* the table written when the CNY/KRW request raises
fallback_rates ==
  [c \in {"CNY", "KRW"} |-> IF c = "CNY" THEN PyFloat(11, 1) ELSE PyFloat(52, 1000)]

\* what the answer to the first request does to the table: for status 200 the
\* USD and EUR values, rounded to 2 places, are merged; another status writes
\* nothing; an exception (the outer except) merges the four default rates
refresh_cbr(rates, response) ==
  IF response.raises
  THEN update_exchange_rates(rates, default_exchange_rates)
  ELSE IF response.status = 200
  THEN update_exchange_rates(rates,
         [c \in {"USD", "EUR"} |->
            IF c = "USD" THEN PyRoundN(response.USD, 2) ELSE PyRoundN(response.EUR, 2)])
  ELSE rates

\* what the answer to the second request does: for status 200 CNY and KRW are
\* derived from the table's USD rate and merged; another status writes
\* nothing; an exception (the inner except) merges the fixed CNY and KRW rates
refresh_exchange(rates, response) ==
  IF response.raises
  THEN update_exchange_rates(rates, fallback_rates)
  ELSE IF response.status = 200
  THEN LET usd_rub == rates["USD"]
           cny_rub == PyRoundN(FDivInt(usd_rub, response.CNY), 4)
           krw_rub == PyRoundN(FDivInt(usd_rub, response.KRW), 6)
       IN  update_exchange_rates(rates,
             [c \in {"CNY", "KRW"} |-> IF c = "CNY" THEN cny_rub ELSE krw_rub])
  ELSE rates

\* the answers of the two services
CbrResponses ==
  {[raises |-> FALSE, status |-> 200,
    USD |-> PyFloat(770954, 10000), EUR |-> PyFloat(922478, 10000)],
   [raises |-> FALSE, status |-> 503], [raises |-> TRUE]}

ExchangeResponses ==
  {[raises |-> FALSE, status |-> 200, CNY |-> 7, KRW |-> 1400],
   [raises |-> FALSE, status |-> 503], [raises |-> TRUE]}

\* the keys of the table a call of calculate_customs reads
keys_read(rates, now, currency, manufacture_date_str) ==
  LET age == calculate_age(parse_manufacture_date(manufacture_date_str, now), now)
  IN  ({currency} \cap DOMAIN rates)
      \cup (IF fixed_duty_band(age.years) THEN {"EUR"} ELSE {})

\* a run of the job begins and waits for the first answer
RefreshStart ==
  /\ result = Idle
  /\ job.pc \in {"idle", "done"}
  /\ job' = [pc |-> "cbr", before |-> exchange_rates, seen |-> {}]
  /\ UNCHANGED <<exchange_rates, today, call, result, conversation, user_data, last>>

\* the first answer arrives; the run then waits for the second, or ends
RefreshCbr(response) ==
  /\ result = Idle
  /\ job.pc = "cbr"
  /\ exchange_rates' = refresh_cbr(exchange_rates, response)
  /\ job' = IF response.raises
            THEN [pc |-> "done", before |-> job.before, seen |-> job.seen,
                  after |-> exchange_rates']
            ELSE [job EXCEPT !.pc = "exchange"]
  /\ UNCHANGED <<today, call, result, conversation, user_data, last>>

\* the second answer arrives and the run ends
RefreshExchange(response) ==
  /\ result = Idle
  /\ job.pc = "exchange"
  /\ exchange_rates' = refresh_exchange(exchange_rates, response)
  /\ job' = [pc |-> "done", before |-> job.before, seen |-> job.seen,
             after |-> exchange_rates']
  /\ UNCHANGED <<today, call, result, conversation, user_data, last>>

\* a calculation while the job may be waiting: what it reads is noted
RefreshCalculate(purchase_price, currency, manufacture_date_str, engine_volume, hp, importer_type) ==
  /\ Calculated(purchase_price, currency, manufacture_date_str, engine_volume, hp, importer_type)
  /\ job' = IF job.pc \in {"cbr", "exchange"}
            THEN [job EXCEPT !.seen = @ \cup
                    {[c \in keys_read(exchange_rates, today, currency, manufacture_date_str)
                        |-> exchange_rates[c]]}]
            ELSE job
  /\ UNCHANGED <<exchange_rates, today, conversation, user_data, last>>

RefreshCurrencies == {"USD", "CNY"}

RefreshDateStrings ==
  {DateStr("%Y-%m-%d", 2024, 2, 29), DateStr("%Y-%m-%d", 2022, 1, 31)}

RefreshNext ==
  \/ RefreshStart
  \/ \E response \in CbrResponses : RefreshCbr(response)
  \/ \E response \in ExchangeResponses : RefreshExchange(response)
  \/ \E c \in RefreshCurrencies, s \in RefreshDateStrings :
       RefreshCalculate(PyFloat(20000, 1), c, s, PyFloat(18, 10), 150, "individual")
  \/ Respond

RefreshSpec == DialogueInit /\ [][RefreshNext]_vars

(* ---------------------------------------------------------------------- *)
(* Calls of calculate_customs one after another, the earlier one remembered *)
(* ---------------------------------------------------------------------- *)
RepeatCalculate_setdefault(purchase_price, currency, manufacture_date_str, engine_volume, hp, importer_type) ==
  /\ Calculated(purchase_price, currency, manufacture_date_str, engine_volume, hp, importer_type)
  /\ exchange_rates' = IF currency \in DOMAIN exchange_rates THEN exchange_rates
                       ELSE update_exchange_rates(exchange_rates,
                                                  [c \in {currency} |-> no_rate])
  /\ UNCHANGED <<today, bot_vars>>

\* a call of calculate_customs
RepeatCalculate(purchase_price, currency, manufacture_date_str, engine_volume, hp, importer_type) ==
  /\ Calculated(purchase_price, currency, manufacture_date_str, engine_volume, hp, importer_type)
  /\ UNCHANGED <<exchange_rates, today, bot_vars>>

\* the caller takes what the call returned or raised; the call, the table and
\* the day it was made with, and its outcome are kept for comparison
RepeatRespond ==
  /\ result # Idle
  /\ last' = [call |-> call, rates |-> exchange_rates, today |-> today,
              result |-> result]
  /\ call' = NoCall
  /\ result' = Idle
  /\ UNCHANGED <<exchange_rates, today, conversation, user_data, job>>

RepeatDateStrings ==
  {DateStr("%Y-%m-%d", 2024, 2, 28), DateStr("%d.%m.%Y", 2022, 1, 31),
   DateStr("other", 2022, 5, 15)}

RepeatNext ==
  \/ \E p \in Prices, c \in Currencies, s \in RepeatDateStrings :
       RepeatCalculate(p, c, s, PyFloat(18, 10), 150, "individual")
  \/ RepeatRespond
  \/ \E n \in NewRates : UpdateRates(n)
  \/ Tick

RepeatSpec == Init /\ [][RepeatNext]_vars

(* ---------------------------------------------------------------------- *)
(* Claims C1 - C10                                                         *)
(* ---------------------------------------------------------------------- *)
Returned == result.status = "ok"

\* float values the claims name
Double_0_48 == PyFloat(48, 100)

Double_1 == FromInt(1)

Double_2 == FromInt(2)

Double_3 == FromInt(3)

Double_1000 == FromInt(1000)

Double_77 == FromInt(77)

Double_91 == FromInt(91)

Double_20000 == FromInt(20000)

\* the call's engine volume in cm3
CallCm3 == FMul(call.engine_volume, Double_1000)

\* the discount branch returned a fee: volume <= 3.0, hp <= 160 and age <= 5
DiscountGiven ==
  /\ FLe(call.engine_volume, Double_3)
  /\ call.hp <= 160
  /\ result.vehicle_age_years <= 5

\* the text of the date matches neither layout
Unparsable(s) ==
  \/ s.fmt \notin {"%Y-%m-%d", "%d.%m.%Y"}
  \/ ~ValidDate(s.year, s.month, s.day)

\* C1: every result of calculate_customs has
\* total_payable = round(customs_duty) + recycling_fee.
C1_TotalIsRoundedDutyPlusFee ==
  Returned =>
    result.total_payable = result.customs_duty + result.recycling_fee

\* C2: calculate_customs never fails for well-formed input, whatever the rate
\* table holds: every call returns a result record.
C2_CalculateNeverFails ==
  call.op = "calculate_customs" => Returned

C4_DutyRuleByAge ==
  Returned =>
    LET age     == result.vehicle_age_years
        rate    == IF call.currency \in DOMAIN exchange_rates
                   THEN exchange_rates[call.currency] ELSE Double_1
        share   == PyRound(FMul(FMul(call.purchase_price, rate), Double_0_48))
        byTable == result.duty_type[1] = "fixed duty, EUR"
    IN  /\ byTable <=> (3 < age /\ age <= 5)
        /\ ~byTable => result.customs_duty = share
        /\ (/\ call.purchase_price = Double_20000
            /\ call.currency = "USD"
            /\ "USD" \in DOMAIN exchange_rates
            /\ exchange_rates["USD"] = Double_77
            /\ age = 2) => result.customs_duty = 739200

C4_Witness ==
  /\ Returned
  /\ call.purchase_price = Double_20000
  /\ call.currency = "USD"
  /\ exchange_rates["USD"] = Double_77
  /\ result.vehicle_age_years = 2
  /\ result.customs_duty = 739200

\* C5: for 3 < age <= 5 the duty is round(volume_cm3 x rate x EUR rate) for the
\* one bracket with min_vol < volume_cm3 <= max_vol; 1000, 1500, 1800, 2300 and
\* 3000 cm3 fall in the bracket that ends there; the price plays no part.
C5_VolumeRateDuty ==
  (Returned /\ 3 < result.vehicle_age_years /\ result.vehicle_age_years <= 5) =>
    LET holds == {i \in 1..Len(duty_rates_3_5_years) :
                    /\ FLt(FromInt(duty_rates_3_5_years[i][1]), CallCm3)
                    /\ \/ duty_rates_3_5_years[i][2] = inf
                       \/ FLe(CallCm3, FromInt(duty_rates_3_5_years[i][2]))}
    IN  /\ Cardinality(holds) = 1
        /\ \A i \in holds :
             result.customs_duty =
               PyRound(FMul(FMul(CallCm3, duty_rates_3_5_years[i][3]),
                            exchange_rates["EUR"]))
        /\ \A v \in {1000, 1500, 1800, 2300, 3000} :
             CallCm3 = FromInt(v) => \A i \in holds : duty_rates_3_5_years[i][2] = v

C5_Witness ==
  /\ Returned
  /\ result.vehicle_age_years = 4
  /\ CallCm3 = FromInt(1800)
  /\ exchange_rates["EUR"] = Double_91
  /\ result.customs_duty = 409500

\* C6: with volume <= 3.0 L and hp <= 160 the recycling fee is 3400 for
\* age < 3 and 5200 for 3 <= age <= 5, whatever the general table holds.
C6_DiscountLaw ==
  (Returned /\ FLe(call.engine_volume, Double_3) /\ call.hp <= 160) =>
    /\ result.vehicle_age_years < 3 => result.recycling_fee = 3400
    /\ (3 <= result.vehicle_age_years /\ result.vehicle_age_years <= 5)
         => result.recycling_fee = 5200

C6_Witness ==
  /\ Returned
  /\ call.engine_volume = Double_2
  /\ call.hp = 160
  /\ result.vehicle_age_years = 2
  /\ result.recycling_fee = 3400

\* C7: without the discount, a volume <= 1.0 L or > 3.0 L gets the fixed
\* default fee: 20000 for age <= 3, else 30000.
C7_DefaultOutsideTables ==
  (/\ Returned
   /\ ~DiscountGiven
   /\ (FLe(call.engine_volume, Double_1) \/ FLt(Double_3, call.engine_volume)))
    => result.recycling_fee =
         (IF result.vehicle_age_years <= 3 THEN 20000 ELSE 30000)

\* C8: without the discount, and with hp inside a range of the volume's table
\* ((1.0, 2.0] or (2.0, 3.0] litres), the fee is that of the one range with
\* min_hp <= hp < max_hp: its first fee for age <= 3, its second for age > 3;
\* 1.5 L, 190 hp and age 2 give the first fee of (190, 220).
C8_HorsepowerRange ==
  (/\ Returned
   /\ ~DiscountGiven
   /\ FLt(Double_1, call.engine_volume)
   /\ FLe(call.engine_volume, Double_3)) =>
    LET table  == IF FLe(call.engine_volume, Double_2)
                  THEN recycling_fee_2026["1.0-2.0"]
                  ELSE recycling_fee_2026["2.0-3.0"]
        inside == {i \in 1..Len(table) :
                     /\ table[i][1] <= call.hp
                     /\ (table[i][2] = inf \/ call.hp < table[i][2])}
    IN  /\ inside # {} =>
              /\ Cardinality(inside) = 1
              /\ \A i \in inside :
                   result.recycling_fee =
                     (IF result.vehicle_age_years <= 3 THEN table[i][3]
                      ELSE table[i][4])
        /\ (/\ call.engine_volume = PyFloat(15, 10)
            /\ call.hp = 190
            /\ result.vehicle_age_years = 2) => result.recycling_fee = 952000

C8_Witness ==
  /\ Returned
  /\ call.engine_volume = PyFloat(15, 10)
  /\ call.hp = 190
  /\ result.vehicle_age_years = 2
  /\ result.recycling_fee = 952000

\* the age claimed for manufacture date m: T div 12 years and T mod 12 months
AgeIsFromMonths(m, years, months) ==
  LET T0 == (today.year - m.year) * 12 + (today.month - m.month)
      T  == IF today.day < m.day THEN T0 - 1 ELSE T0
  IN  /\ years = T \div 12
      /\ months = T % 12
      /\ DateLe(m, today) =>
           /\ years >= 0
           /\ months >= 0 /\ months <= 11
           /\ years * 12 + months = T

\* C9: the age is T div 12 years and T mod 12 months, T being the months from
\* the manufacture date to today less one if today's day of the month is
\* smaller; a date not after today gives years >= 0 and 0 <= months <= 11.
C9_AgeFromMonths ==
  /\ Returned =>
       AgeIsFromMonths(result.manufacture_date, result.vehicle_age_years,
                       result.vehicle_age_months)
  /\ result.status = "age" =>
       AgeIsFromMonths(call.manufacture_date, result.age.years, result.age.months)

C9_Witness ==
  /\ Returned
  /\ today = Date(2026, 2, 28)
  /\ result.manufacture_date = DateStr("%d.%m.%Y", 2024, 2, 29)
  /\ result.vehicle_age_years = 1
  /\ result.vehicle_age_months = 11

\* C10: the year count never falls as the manufacture date moves back (today
\* fixed) nor as today moves on (manufacture date fixed).
C10_AgeMonotonic ==
  /\ [](result.status = "age" =>
          \A d \in AgeDates :
            /\ DateLe(d, call.manufacture_date)
                 => calculate_age(d, today).years >= result.age.years
            /\ DateLe(call.manufacture_date, d)
                 => calculate_age(d, today).years <= result.age.years)
  /\ [][\A d \in AgeDates :
          calculate_age(d, today').years >= calculate_age(d, today).years]_vars

C10_Witness ==
  /\ result.status = "age"
  /\ today = Date(2028, 2, 29)
  /\ call.manufacture_date = Date(2024, 2, 29)
  /\ result.age.years = 4

(* ---------------------------------------------------------------------- *)
(* Claims C11 - C18                                                        *)
(* ---------------------------------------------------------------------- *)
\* today's date fifty years ago
FiftyYearsAgo == Date(today.year - 50, today.month, today.day)

\* C11: no result is ever produced whose manufacture date is after today or
\* more than 50 years, to the day, before today: such a date is rejected
\* before it reaches a calculation.
C11_DateWithinFiftyYears ==
  Returned =>
    /\ DateLe(result.manufacture_date, today)
    /\ DateLe(FiftyYearsAgo, result.manufacture_date)

Double_77_1 == PyFloat(771, 10)

\* the rate calculate_customs reads for the currency of the call
RateRead ==
  IF call.currency \in DOMAIN exchange_rates
  THEN exchange_rates[call.currency] ELSE Double_1

\* C12: update_exchange_rates(new_rates) is a merge: afterwards every key of
\* new_rates has its new value, every other key keeps its value and no key is
\* removed; a calculation made afterwards uses the values the table now holds.
C12_UpdateIsMerge ==
  /\ call.op = "update_exchange_rates" =>
       /\ DOMAIN exchange_rates = DOMAIN call.rates_before \cup DOMAIN call.new_rates
       /\ \A c \in DOMAIN call.new_rates : exchange_rates[c] = call.new_rates[c]
       /\ \A c \in DOMAIN call.rates_before \ DOMAIN call.new_rates :
            exchange_rates[c] = call.rates_before[c]
  /\ Returned =>
       /\ result.rub_price = PyRound(FMul(call.purchase_price, RateRead))
       /\ result.duty_type[1] = "fixed duty, EUR" =>
            result.customs_duty =
              PyRound(FMul(get_duty_for_3_5_years(CallCm3), exchange_rates["EUR"]))

C12_Witness ==
  /\ call.op = "update_exchange_rates"
  /\ DOMAIN call.rates_before = {"USD", "CNY", "EUR", "KRW"}
  /\ DOMAIN call.new_rates = {"USD", "EUR"}
  /\ call.rates_before["USD"] = Double_77
  /\ exchange_rates["USD"] = Double_77_1
  /\ exchange_rates["CNY"] = FromInt(11)

\* what a calculation read agrees with the table t
Agrees(seen_rates, t) == \A c \in DOMAIN seen_rates : seen_rates[c] = t[c]

SameCallSameTable ==
  /\ call.op = "calculate_customs"
  /\ last # NoCall
  /\ last.call = call
  /\ last.rates = exchange_rates

\* a call of calculate_customs leaves the rate table as it was
CallLeavesTable ==
  (result = Idle /\ call'.op = "calculate_customs") => exchange_rates' = exchange_rates

\* C14 as stated: two calls of calculate_customs with identical input and an
\* unchanged rate table return identical results, and a call leaves the rate
\* table unchanged.
C14_SameInputSameResult ==
  /\ [](SameCallSameTable => result = last.result)
  /\ [][CallLeavesTable]_vars

\* C14 as amended: two calls of calculate_customs with identical input, an
\* unchanged rate table and the same current date return identical results,
\* and a call leaves the rate table unchanged.
C14_SameInputSameDaySameResult ==
  /\ []((SameCallSameTable /\ last.today = today) => result = last.result)
  /\ [][CallLeavesTable]_vars

C14_Witness ==
  /\ SameCallSameTable
  /\ last.today = today
  /\ Returned
  /\ result = last.result
  /\ result.vehicle_age_years = 2

\* what the call in progress returns when made with the importer type i
WithImporterType(i) ==
  calculate_customs(exchange_rates, today, call.purchase_price, call.currency,
                    call.manufacture_date_str, call.engine_volume, call.hp, i)

\* C15: the importer type does not affect the math: the same call made with
\* the other importer type returns the same age, duty, duty label, fee and
\* total (or fails the same way); the type is only echoed in the result.
C15_ImporterTypeOnlyEchoed ==
  call.op = "calculate_customs" =>
    /\ Returned => result.importer_type = call.importer_type
    /\ \A i \in ImporterTypes \ {call.importer_type} :
         IF Returned
         THEN WithImporterType(i) = [result EXCEPT !.importer_type = i]
         ELSE WithImporterType(i) = result

C15_Witness ==
  /\ Returned
  /\ call.importer_type = "legal entity"
  /\ result.importer_type = "legal entity"
  /\ result.vehicle_age_years = 4
  /\ result.recycling_fee = 3501600
  /\ WithImporterType("individual").recycling_fee = 3501600

\* the age in whole years of the vehicle of the call in progress
CallAgeYears ==
  calculate_age(parse_manufacture_date(call.manufacture_date_str, today), today).years

\* C16: the price in roubles is the amount times the table's current rate
\* for the currency code, and the amount times exactly 1 when the code is not
\* in the table; a currency absent from the table is never an error: a call
\* fails only in the EUR lookup of the fixed duty, whatever its currency.
C16_AbsentCurrencyIsFactorOne ==
  call.op = "calculate_customs" =>
    /\ (Returned /\ call.currency \in DOMAIN exchange_rates) =>
         result.rub_price =
           PyRound(FMul(call.purchase_price, exchange_rates[call.currency]))
    /\ (Returned /\ call.currency \notin DOMAIN exchange_rates) =>
         result.rub_price = PyRound(call.purchase_price)
    /\ (call.currency \notin DOMAIN exchange_rates
          /\ ~("EUR" \notin DOMAIN exchange_rates /\ fixed_duty_band(CallAgeYears)))
         => Returned
    /\ ~Returned =>
         /\ result.status = "KeyError"
         /\ "EUR" \notin DOMAIN exchange_rates
         /\ fixed_duty_band(CallAgeYears)

C16_Witness ==
  /\ Returned
  /\ call.currency = "EUR"
  /\ "EUR" \notin DOMAIN exchange_rates
  /\ call.purchase_price = PyFloat(9375, 100)
  /\ result.rub_price = 94
  /\ result.customs_duty = 45

\* the five values the dialogue collects before it asks the importer type
CollectedKeys ==
  {"purchase_price", "currency", "manufacture_date", "engine_volume", "horsepower"}

\* the range checks of the dialogue, on the values user_data holds
PriceInRange(data) ==
  "purchase_price" \in DOMAIN data => FLt(FromInt(0), data["purchase_price"])

VolumeInRange(data) ==
  "engine_volume" \in DOMAIN data =>
    /\ FLt(FromInt(0), data["engine_volume"])
    /\ FLe(data["engine_volume"], FromInt(10))

HorsepowerInRange(data) ==
  "horsepower" \in DOMAIN data =>
    /\ 0 < data["horsepower"]
    /\ data["horsepower"] <= 2000

DateInRange(data, now) ==
  "manufacture_date" \in DOMAIN data =>
    /\ ~Unparsable(data["manufacture_date"])
    /\ DateLe(parse_manufacture_date(data["manufacture_date"], now), now)

\* C17: whatever messages were sent, calculate_customs is called only with
\* the five stored values of the dialogue, all five are stored by then, and
\* every value the dialogue has stored passed its range check: price > 0,
\* 0 < volume <= 10, 0 < hp <= 2000, date parseable and not after today.
C17_OnlyCheckedValuesAreStored ==
  /\ PriceInRange(user_data)
  /\ VolumeInRange(user_data)
  /\ HorsepowerInRange(user_data)
  /\ DateInRange(user_data, today)
  /\ (call.op = "calculate_customs" /\ result # Idle) =>
       /\ CollectedKeys \subseteq DOMAIN user_data
       /\ call.purchase_price = user_data["purchase_price"]
       /\ call.currency = user_data["currency"]
       /\ call.manufacture_date_str = user_data["manufacture_date"]
       /\ call.engine_volume = user_data["engine_volume"]
       /\ call.hp = user_data["horsepower"]

\* the horsepower rows, in key order, of the fee table of the call's volume
CallFeeTable ==
  sorted(recycling_fee_2026[IF FLe(call.engine_volume, Double_2)
                            THEN "1.0-2.0" ELSE "2.0-3.0"])

HighestRange == CallFeeTable[Len(CallFeeTable)]

\* no range of the table holds the call's horsepower
NoRangeHolds ==
  \A i \in 1..Len(CallFeeTable) :
    ~(CallFeeTable[i][1] <= call.hp
        /\ (CallFeeTable[i][2] = inf \/ call.hp < CallFeeTable[i][2]))

\* the call's horsepower is at or above the upper bound of every range
AboveEveryRange ==
  \A i \in 1..Len(CallFeeTable) :
    CallFeeTable[i][2] # inf /\ call.hp >= CallFeeTable[i][2]

\* C18: the fee of the table's highest horsepower range is charged by
\* fallback only when the horsepower is at or above every range's upper
\* bound; a horsepower below the lowest range's lower bound that gets no
\* discount is never charged the highest range's fee.
C18_FallbackOnlyAboveEveryRange ==
  (Returned /\ ~DiscountGiven /\ NoRangeHolds
     /\ result.recycling_fee \in {HighestRange[3], HighestRange[4]})
    => /\ AboveEveryRange
       /\ ~(call.hp < CallFeeTable[1][1])

====
